---- MODULE Spec2Model ----
(***************************************************************************)
(* Model of the standup tracker's daily document: getOrCreateStandup and   *)
(* updateStandupEntry (api/_lib/store.ts) over the blob store, the update  *)
(* handler (api/standup/update.ts) with its session cookie, and the team   *)
(* operations that change what those two read.                             *)
(*                                                                         *)
(* One team and one date are modelled, so there is one standup key.  Every *)
(* await on the blob store is a step of its own: between two steps of one  *)
(* request any other request may run.                                      *)
(*                                                                         *)
(* Texts (the three fields, the If-Match token) are sequences of           *)
(* characters, so that trim(), Number() and String() are computed.         *)
(***************************************************************************)
EXTENDS Integers, Sequences, FiniteSets, TLC

\* ---------------------------------------------------------------- bounds
MaxVersion == 2
MaxLen == 2
MaxTeams == 2
MaxMemberships == 2

Users == {"u1", "u2", "u3"}
Procs == {"p1", "p2"}

\* ----------------------------------------------------------------- texts
E == <<>>
S == <<" ">>
X == <<"x">>

DigitChars == <<"0", "1", "2", "3", "4", "5", "6", "7", "8", "9">>

IsDigit(c) == \E d \in 1..10 : DigitChars[d] = c

DigitVal(c) == (CHOOSE d \in 1..10 : DigitChars[d] = c) - 1

IsSpace(c) == c = " "

RECURSIVE TrimLeft(_)
TrimLeft(s) ==
  IF s = <<>> THEN s
  ELSE IF IsSpace(Head(s)) THEN TrimLeft(Tail(s)) ELSE s

RECURSIVE TrimRight(_)
TrimRight(s) ==
  IF s = <<>> THEN s
  ELSE IF IsSpace(s[Len(s)]) THEN TrimRight(SubSeq(s, 1, Len(s) - 1)) ELSE s

trim(s) == TrimRight(TrimLeft(s))

RECURSIVE DecVal(_)
DecVal(s) ==
  IF s = <<>> THEN 0
  ELSE DecVal(SubSeq(s, 1, Len(s) - 1)) * 10 + DigitVal(s[Len(s)])

\* Number(string) of JavaScript on texts made of digits, blanks and letters:
\* blanks are stripped, the empty text is 0, a run of digits is its decimal
\* value, anything else is NaN (finite = FALSE).
Number(s) ==
  LET t == trim(s) IN
  IF t = <<>> THEN [finite |-> TRUE, value |-> 0]
  ELSE IF \A k \in 1..Len(t) : IsDigit(t[k])
       THEN [finite |-> TRUE, value |-> DecVal(t)]
       ELSE [finite |-> FALSE, value |-> 0]

\* String(number) of JavaScript on the naturals: the decimal digits.
RECURSIVE String(_)
String(n) ==
  IF n < 10 THEN <<DigitChars[n + 1]>>
  ELSE String(n \div 10) \o <<DigitChars[(n % 10) + 1]>>

\* calcStatus counting the fields as typed, without trim()
calcStatus_Untrimmed(y, t, b) ==
  LET filled == Cardinality({k \in 1..3 : <<y, t, b>>[k] # <<>>}) IN
  IF filled = 0 THEN "missing"
  ELSE IF filled = 3 THEN "prepared" ELSE "partial"

\* calcStatus of the server (api/_lib/store.ts)
calcStatus(y, t, b) ==
  LET filled == Cardinality({k \in 1..3 : trim(<<y, t, b>>[k]) # <<>>}) IN
  IF filled = 0 THEN "missing"
  ELSE IF filled = 3 THEN "prepared" ELSE "partial"

\* calcStatus of the client (src/lib/standup.ts), on the form's fields
calcStatusClient(fields) ==
  LET y == trim(fields.yesterday)
      t == trim(fields.today)
      b == trim(fields.blockers)
      filled == Len(SelectSeq(<<y, t, b>>, LAMBDA f : f # <<>>)) IN
  IF filled = 0 THEN "missing"
  ELSE IF filled = 3 THEN "prepared"
  ELSE "partial"

\* ------------------------------------------------------------ the inputs
Payloads == {<<X, S, E>>, <<X, X, X>>}

Tokens == {E, <<"a">>} \cup {String(v) : v \in 0..MaxVersion}

Roles == {"manager", "member"}

\* the texts a form field can hold, up to MaxLen characters
Chars == {" ", "x"}

Texts == UNION {[1..n -> Chars] : n \in 0..MaxLen}

\* ------------------------------------------------------------- the state
VARIABLES
  team,      \* the stored team blob: exists, memberUserIds
  users,     \* the stored user blobs: exists, name, role
  standup,   \* the stored standup blob of the one (team, date) key
  session,   \* the role inside each user's session cookie, "none" without one
  locked,    \* TRUE once the clock has passed date + standupCutoffTime
  procs,     \* the requests in flight: position and local variables
  committed, \* history: per row, the fields of the last update that returned success
  teams,     \* the team blobs made by createTeam, and how many ids were drawn
  ensured,   \* history: the last call of ensureTeamForViewer and what it met
  byEmail    \* the email mapping blobs: the user id stored under each email key

vars == <<team, users, standup, session, locked, procs, committed, teams, ensured,
          byEmail>>

\* the id of the team of the stored team blob, and the ids nanoid() draws
TeamId == "t1"

TeamIds == <<"t2", "t3", "t4", "t5">>

NoTeam == "null"

NoTeams == [minted |-> 0, blobs |-> {}]

NoCall == [count |-> 0, viewer |-> <<>>, result |-> NoTeam, repaired |-> FALSE,
           after |-> <<>>]

\* ------------------------------------------------------- the user record
\* String.prototype.toLowerCase on the letters of the emails
LowerChar(c) == IF c = "A" THEN "a" ELSE IF c = "B" THEN "b" ELSE c

toLowerCase(s) == [k \in 1..Len(s) |-> LowerChar(s[k])]

\* the emails typed into the forms, and the keys of the email mapping
Emails == {<<"a">>, <<"A">>, <<"b">>, <<"c">>}

EmailKeys == {toLowerCase(e) : e \in Emails}

EmailOf(u) == IF u = "u1" THEN <<"a">> ELSE IF u = "u2" THEN <<"b">> ELSE <<"c">>

NoUserId == ""

Membership(teamId, role) == [teamId |-> teamId, role |-> role]

\* normalizeUser(raw): the legacy teamId becomes the one membership when there
\* is none, and the active team falls back to the legacy one
normalizeUser(raw) ==
  LET memberships ==
        IF raw.memberships = <<>> /\ raw.teamId # ""
        THEN <<Membership(raw.teamId, IF raw.role # "" THEN raw.role ELSE "member")>>
        ELSE raw.memberships
      activeTeamId ==
        IF raw.activeTeamId # "" THEN raw.activeTeamId
        ELSE IF raw.teamId # "" THEN raw.teamId
        ELSE IF memberships # <<>> THEN memberships[1].teamId
        ELSE ""
  IN [raw EXCEPT !.memberships = memberships, !.activeTeamId = activeTeamId]

\* getRoleForTeam reading the legacy role before the membership
getRoleForTeam_LegacyFirst(user, teamId) ==
  LET u == normalizeUser(user)
      found == SelectSeq(u.memberships, LAMBDA m : m.teamId = teamId)
  IN IF u.role # "" THEN u.role
     ELSE IF found # <<>> THEN found[1].role
     ELSE "member"

\* getRoleForTeam(user, teamId)
getRoleForTeam(user, teamId) ==
  LET u == normalizeUser(user)
      found == SelectSeq(u.memberships, LAMBDA m : m.teamId = teamId)
  IN IF found # <<>> THEN found[1].role
     ELSE IF u.role # "" THEN u.role
     ELSE "member"

\* userTeamIds(user)
userTeamIds(user) ==
  LET u == normalizeUser(user) IN
  [k \in 1..Len(u.memberships) |-> u.memberships[k].teamId]

\* the record upsertUser(user) stores under usersKey(user.id)
Upserted(user) ==
  LET u == normalizeUser(user)
      synced == [u EXCEPT !.teamId = u.activeTeamId]
  IN [synced EXCEPT !.role = getRoleForTeam(synced, synced.activeTeamId),
                    !.exists = TRUE]

\* the memberships with the one for teamId set to role, pushed when missing
WithMembership(memberships, teamId, role) ==
  IF \E k \in 1..Len(memberships) : memberships[k].teamId = teamId
  THEN [k \in 1..Len(memberships) |->
          IF memberships[k].teamId = teamId
          THEN [memberships[k] EXCEPT !.role = role] ELSE memberships[k]]
  ELSE Append(memberships, Membership(teamId, role))

NoPayload == <<>>

NameOf(u) == <<u>>

\* a user record as upsertUser leaves it, on the team of the stored team blob
StoredUser(u, role) ==
  [exists |-> TRUE, name |-> NameOf(u), email |-> EmailOf(u),
   role |-> role, teamId |-> TeamId, activeTeamId |-> TeamId,
   memberships |-> <<Membership(TeamId, role)>>]

NoStandup == [exists |-> FALSE, version |-> 0, rows |-> <<>>]

\* the today page before it is opened: data.value, the dirty mark of the
\* row being edited, the GET cache of apiFetch, and what the page last did
NoPage ==
  [open |-> FALSE, viewer |-> [id |-> "", role |-> ""],
   etag |-> E, row |-> <<E, E, E>>, base |-> <<E, E, E>>, dirty |-> FALSE,
   cache |-> <<>>, fresh |-> FALSE, intent |-> "",
   afterPut |-> FALSE, reloadStale |-> FALSE, current |-> FALSE, overwrites |-> FALSE]

\* no call of fetchWithRetry: the answers the network will give, the loop
\* counter, the fetches made, lastErr and how the call ended
NoFetch ==
  [answers |-> <<>>, pc |-> "none", attempt |-> 0, fetches |-> 0,
   lastErr |-> "", error |-> ""]

IdleProc ==
  [pc |-> "idle", op |-> "none", via |-> "none",
   team |-> <<>>, viewerUserId |-> "", viewerRole |-> "", userId |-> "",
   payload |-> <<E, E, E>>, ifMatch |-> E,
   creating |-> FALSE, data |-> <<>>, doc |-> [version |-> 0, rows |-> <<>>],
   i |-> 0, loaded |-> -1, skipped |-> {},
   reconciled |-> <<>>, result |-> "", shown |-> "", status |-> 0, etag |-> E,
   looked |-> FALSE, existed |-> FALSE, wrote |-> FALSE, storedRole |-> "",
   user |-> <<>>, query |-> "", teamIds |-> <<>>, role |-> "", page |-> NoPage,
   net |-> NoFetch]

Init ==
  /\ team = [exists |-> TRUE, memberUserIds |-> <<"u1", "u2">>]
  /\ users = [u \in Users |->
                StoredUser(u, IF u = "u1" THEN "manager" ELSE "member")]
  /\ standup = NoStandup
  /\ session = [u \in Users |-> "none"]
  /\ locked = FALSE
  /\ procs = [p \in Procs |-> IdleProc]
  /\ committed = [u \in Users |-> NoPayload]
  /\ teams = NoTeams
  /\ ensured = NoCall
  /\ byEmail = [e \in EmailKeys |->
                  IF \E u \in Users : EmailOf(u) = e
                  THEN CHOOSE u \in Users : EmailOf(u) = e ELSE NoUserId]

\* ------------------------------------------------------------ the helpers
InSeq(x, s) == \E k \in 1..Len(s) : s[k] = x

\* findIndex with the first row taken for "not found" (idx <= 0 for idx < 0)
findIndex_FirstRowLost(rows, userId) ==
  IF \E k \in 2..Len(rows) : rows[k].userId = userId /\ rows[1].userId # userId
  THEN CHOOSE k \in 2..Len(rows) :
         /\ rows[k].userId = userId
         /\ \A j \in 1..(k - 1) : rows[j].userId # userId
  ELSE 0

\* Array.findIndex: the first index whose row is for userId, 0 for -1.
findIndex(rows, userId) ==
  IF \E k \in 1..Len(rows) : rows[k].userId = userId
  THEN CHOOSE k \in 1..Len(rows) :
         /\ rows[k].userId = userId
         /\ \A j \in 1..(k - 1) : rows[j].userId # userId
  ELSE 0

\* new Map(rows.map(r => [r.userId, r])).get(uid): the last row for uid.
\* current.get(uid) never finding the row
MapHas_Never(rows, uid) == FALSE

MapHas(rows, uid) == \E k \in 1..Len(rows) : rows[k].userId = uid

MapGet(rows, uid) ==
  rows[CHOOSE k \in 1..Len(rows) :
         /\ rows[k].userId = uid
         /\ \A j \in (k + 1)..Len(rows) : rows[j].userId # uid]

\* the new row with the status of a filled-in one
FreshRow_Prepared(uid, name) ==
  [userId |-> uid, name |-> name, yesterday |-> E, today |-> E, blockers |-> E,
   status |-> "prepared"]

\* the row pushed for a member who has none
FreshRow(uid, name) ==
  [userId |-> uid, name |-> name, yesterday |-> E, today |-> E, blockers |-> E,
   status |-> "missing"]

\* the request is over: only what the caller gave and got is kept
Done(pr, result, status) ==
  [pr EXCEPT !.pc = "done", !.result = result, !.status = status,
             !.creating = FALSE, !.data = <<>>, !.i = 0, !.reconciled = <<>>]

\* the opening check without the manager's exemption
IsForbidden_SelfOnly(viewerRole, viewerUserId, userId) ==
  viewerUserId # userId

\* the opening check with its comparison of the two ids inverted
IsForbidden_Inverted(viewerRole, viewerUserId, userId) ==
  viewerRole # "manager" /\ viewerUserId = userId

\* the check that opens updateStandupEntry
IsForbidden(viewerRole, viewerUserId, userId) ==
  viewerRole # "manager" /\ viewerUserId # userId

\* the If-Match check rejecting only tokens ahead of the loaded version
IsConflict_NewerOnly(ifMatch, version) ==
  LET ifMatchVersion == Number(ifMatch) IN
  ifMatchVersion.finite /\ ifMatchVersion.value > version

\* the If-Match check left out
IsConflict_Never(ifMatch, version) == FALSE

\* the soft If-Match check against the loaded version
IsConflict(ifMatch, version) ==
  LET ifMatchVersion == Number(ifMatch) IN
  ifMatchVersion.finite /\ ifMatchVersion.value # version

\* the increment left out
NextVersion_Same(version) == version

NextVersion(version) == version + 1

EtagOf(doc) == String(doc.version)

\* the edit without the spread of the row it replaces
ApplyEdit_NoSpread(row, payload) ==
  [row EXCEPT !.name = E,
              !.yesterday = payload[1], !.today = payload[2], !.blockers = payload[3],
              !.status = calcStatus(payload[1], payload[2], payload[3])]

\* the edit without the status being computed again
ApplyEdit_StatusKept(row, payload) ==
  [row EXCEPT !.yesterday = payload[1], !.today = payload[2], !.blockers = payload[3]]

\* the row that replaces doc.rows[idx]
ApplyEdit(row, payload) ==
  [row EXCEPT !.yesterday = payload[1], !.today = payload[2], !.blockers = payload[3],
              !.status = calcStatus(payload[1], payload[2], payload[3])]

\* updateStandupEntry after getOrCreateStandup with the token compared before
\* the row is looked for
UpdateContinue_ConflictFirst(pr, doc) ==
  LET idx == findIndex(doc.rows, pr.userId) IN
  IF IsConflict(pr.ifMatch, doc.version)
  THEN Done([pr EXCEPT !.doc = doc], "Conflict", 409)
  ELSE IF idx = 0 THEN Done([pr EXCEPT !.doc = doc], "User not on team", 400)
       ELSE [pr EXCEPT !.pc = "put", !.reconciled = doc.rows,
                       !.doc = [version |-> NextVersion(doc.version),
                                rows |-> [doc.rows EXCEPT ![idx] = ApplyEdit(@, pr.payload)]]]

\* updateStandupEntry from the return of getOrCreateStandup to its putJson
UpdateContinue(pr, doc) ==
  LET idx == findIndex(doc.rows, pr.userId) IN
  IF idx = 0 THEN Done([pr EXCEPT !.doc = doc], "User not on team", 400)
  ELSE IF IsConflict(pr.ifMatch, doc.version)
       THEN Done([pr EXCEPT !.doc = doc], "Conflict", 409)
       ELSE [pr EXCEPT !.pc = "put", !.reconciled = doc.rows,
                       !.doc = [version |-> NextVersion(doc.version),
                                rows |-> [doc.rows EXCEPT ![idx] = ApplyEdit(@, pr.payload)]]]

\* the return of getOrCreateStandup to its caller
AfterGetOrCreate(pr, doc) ==
  IF pr.op = "get"
  THEN [Done([pr EXCEPT !.doc = doc], "ok", 200) EXCEPT !.etag = EtagOf(doc)]
  ELSE UpdateContinue(pr, doc)

\* the end of getOrCreateStandup with the putJson of the creation branch on
\* both branches
AfterLoop_AlwaysPut(pr) ==
  [pr EXCEPT !.pc = "create_put"]

\* the end of getOrCreateStandup: the creation branch goes on to its putJson,
\* the reconcile branch returns what it built
AfterLoop(pr) ==
  IF pr.creating THEN [pr EXCEPT !.pc = "create_put"]
  ELSE AfterGetOrCreate(pr, pr.doc)

\* the two member loops of getOrCreateStandup, run up to their next await
RECURSIVE Advance(_)
Advance(pr) ==
  IF pr.i > Len(pr.team)
  THEN AfterLoop(pr)
  ELSE IF ~pr.creating /\ MapHas(pr.data, pr.team[pr.i])
       THEN Advance([pr EXCEPT !.doc.rows = Append(@, MapGet(pr.data, pr.team[pr.i])),
                               !.i = @ + 1])
       ELSE [pr EXCEPT !.pc = "find_user"]

\* ------------------------------------------------- getOrCreateStandup steps
\* findBlob(standupKey)
FindStandup(p) ==
  /\ procs[p].pc = "find"
  /\ procs' = [procs EXCEPT ![p] =
       IF ~standup.exists
       THEN Advance([@ EXCEPT !.creating = TRUE, !.looked = TRUE, !.i = 1,
                              !.doc = [version |-> 0, rows |-> <<>>]])
       ELSE [@ EXCEPT !.pc = "read", !.looked = TRUE, !.existed = TRUE]]
  /\ UNCHANGED <<byEmail, teams, ensured, team, users, standup, session, locked, committed>>

\* readJson(blob.url) of the standup blob, then the reconcile loop
ReadStandup(p) ==
  /\ procs[p].pc = "read"
  /\ procs' = [procs EXCEPT ![p] =
       IF ~standup.exists
       THEN Done(@, "Failed to read blob: 404", 500)
       ELSE Advance([@ EXCEPT !.creating = FALSE, !.i = 1,
                              !.data = standup.rows, !.loaded = standup.version,
                              !.doc = [version |-> standup.version, rows |-> <<>>]])]
  /\ UNCHANGED <<byEmail, teams, ensured, team, users, standup, session, locked, committed>>

\* findBlob(usersKey(uid)) of one loop iteration
FindUser(p) ==
  /\ procs[p].pc = "find_user"
  /\ LET pr == procs[p]
         uid == pr.team[pr.i] IN
     procs' = [procs EXCEPT ![p] =
       IF ~users[uid].exists
       THEN Advance([pr EXCEPT !.i = @ + 1, !.skipped = @ \cup {uid}])
       ELSE [pr EXCEPT !.pc = "read_user"]]
  /\ UNCHANGED <<byEmail, teams, ensured, team, users, standup, session, locked, committed>>

\* readJson(uBlob.url) of one loop iteration, and the row it pushes
ReadUser(p) ==
  /\ procs[p].pc = "read_user"
  /\ LET pr == procs[p]
         uid == pr.team[pr.i] IN
     procs' = [procs EXCEPT ![p] =
       IF ~users[uid].exists
       THEN Done(pr, "Failed to read blob: 404", 500)
       ELSE Advance([pr EXCEPT !.doc.rows = Append(@, FreshRow(uid, users[uid].name)),
                               !.i = @ + 1])]
  /\ UNCHANGED <<byEmail, teams, ensured, team, users, standup, session, locked, committed>>

\* putJson(key, doc) of the creation branch
CreatePut(p) ==
  /\ procs[p].pc = "create_put"
  /\ standup' = [exists |-> TRUE, version |-> procs[p].doc.version, rows |-> procs[p].doc.rows]
  /\ LET pr == procs[p] IN
     procs' = [procs EXCEPT ![p] =
       AfterGetOrCreate([pr EXCEPT !.wrote = TRUE, !.loaded = pr.doc.version], pr.doc)]
  /\ UNCHANGED <<byEmail, teams, ensured, team, users, session, locked, committed>>

\* putJson(standupKey, doc) of updateStandupEntry, and its return
PutStandup(p) ==
  /\ procs[p].pc = "put"
  /\ standup' = [exists |-> TRUE, version |-> procs[p].doc.version, rows |-> procs[p].doc.rows]
  /\ LET pr == procs[p] IN
     procs' = [procs EXCEPT ![p] =
       [Done([pr EXCEPT !.wrote = TRUE], "ok", 200) EXCEPT !.etag = EtagOf(pr.doc)]]
  /\ committed' = [committed EXCEPT ![procs[p].userId] = procs[p].payload]
  /\ UNCHANGED <<byEmail, teams, ensured, team, users, session, locked>>

\* the response has been delivered
Return(p) ==
  /\ procs[p].pc = "done"
  /\ procs' = [procs EXCEPT ![p] = IdleProc]
  /\ UNCHANGED <<byEmail, teams, ensured, team, users, standup, session, locked, committed>>

DocStep(p) ==
  \/ FindStandup(p)
  \/ ReadStandup(p)
  \/ FindUser(p)
  \/ ReadUser(p)
  \/ CreatePut(p)
  \/ PutStandup(p)
  \/ Return(p)

\* ------------------------------------------------------------ direct calls
\* getOrCreateStandup(team, date) with the team as stored now
CallGetOrCreate(p) ==
  /\ procs[p].pc = "idle"
  /\ team.exists
  /\ procs' = [procs EXCEPT ![p] =
       [IdleProc EXCEPT !.pc = "find", !.op = "get", !.via = "direct",
                        !.team = team.memberUserIds]]
  /\ UNCHANGED <<byEmail, teams, ensured, team, users, standup, session, locked, committed>>

\* updateStandupEntry(opts) up to its first await
StartUpdate(pr) ==
  IF IsForbidden(pr.viewerRole, pr.viewerUserId, pr.userId)
  THEN Done(pr, "Forbidden", 403)
  ELSE [pr EXCEPT !.pc = "find"]

\* updateStandupEntry called with a viewer of Viewers, a target of Targets and
\* a token of Toks, on the team as stored now
CallUpdate(p, Viewers, Targets, Toks) ==
  /\ procs[p].pc = "idle"
  /\ team.exists
  /\ standup.version < MaxVersion
  /\ \E viewer \in Viewers, userId \in Targets, payload \in Payloads, ifMatch \in Toks :
       procs' = [procs EXCEPT ![p] =
         StartUpdate([IdleProc EXCEPT !.op = "update", !.via = "direct",
                                      !.team = team.memberUserIds,
                                      !.viewerUserId = viewer.id, !.viewerRole = viewer.role,
                                      !.userId = userId, !.payload = payload,
                                      !.ifMatch = ifMatch])]
  /\ UNCHANGED <<byEmail, teams, ensured, team, users, standup, session, locked, committed>>

\* the callers of the concurrent runs: the manager and one member, with the
\* tokens a reader of the document can hold
RaceViewers == {[id |-> "u1", role |-> "manager"], [id |-> "u2", role |-> "member"]}

RaceTargets == {"u1", "u2"}

RaceTokens == {String(v) : v \in 0..MaxVersion}

NextDoc ==
  \E p \in Procs :
    \/ CallGetOrCreate(p)
    \/ CallUpdate(p, RaceViewers, RaceTargets, RaceTokens)
    \/ DocStep(p)

SpecDoc == Init /\ [][NextDoc]_vars

\* ------------------------------------------------------- team operations
\* the user of addUserToTeam and setUserRoleForTeam before it is stored
UserOnTeam(user, teamId, role) ==
  LET u == normalizeUser(user) IN
  [u EXCEPT !.memberships = WithMembership(u.memberships, teamId, role),
            !.activeTeamId = IF u.activeTeamId = "" THEN teamId ELSE u.activeTeamId]

\* the user of removeUserFromTeam before it is stored
UserOffTeam(user, teamId) ==
  LET u == normalizeUser(user)
      left == SelectSeq(u.memberships, LAMBDA m : m.teamId # teamId)
  IN [u EXCEPT !.memberships = left,
               !.activeTeamId = IF u.activeTeamId = teamId
                                THEN IF left # <<>> THEN left[1].teamId ELSE ""
                                ELSE u.activeTeamId]

\* addUserToTeam pushing the user id without looking for it in the list
addUserToTeam_AlwaysPush(userId, role) ==
  /\ team.exists
  /\ users[userId].exists
  /\ users' = [users EXCEPT ![userId] = Upserted(UserOnTeam(@, TeamId, role))]
  /\ byEmail' = [byEmail EXCEPT ![toLowerCase(users[userId].email)] = userId]
  /\ team' = [team EXCEPT !.memberUserIds = Append(@, userId)]
  /\ UNCHANGED <<teams, ensured, standup, session, locked, procs, committed>>

\* addUserToTeam({teamId, userId, role}): the membership role is set and the
\* user id is pushed on the team's list unless it is there
addUserToTeam(userId, role) ==
  /\ team.exists
  /\ users[userId].exists
  /\ users' = [users EXCEPT ![userId] = Upserted(UserOnTeam(@, TeamId, role))]
  /\ byEmail' = [byEmail EXCEPT ![toLowerCase(users[userId].email)] = userId]
  /\ team' = [team EXCEPT !.memberUserIds =
                 IF InSeq(userId, @) THEN @ ELSE Append(@, userId)]
  /\ UNCHANGED <<teams, ensured, standup, session, locked, procs, committed>>

\* removeUserFromTeam({teamId, userId}): the user id is filtered out of the list
removeUserFromTeam(userId) ==
  /\ team.exists
  /\ users[userId].exists
  /\ users' = [users EXCEPT ![userId] = Upserted(UserOffTeam(@, TeamId))]
  /\ byEmail' = [byEmail EXCEPT ![toLowerCase(users[userId].email)] = userId]
  /\ team' = [team EXCEPT !.memberUserIds = SelectSeq(@, LAMBDA id : id # userId)]
  /\ UNCHANGED <<teams, ensured, standup, session, locked, procs, committed>>

\* the reset of POST /api/manager/team: every blob under the prefix is deleted
Reset ==
  /\ team.exists
  /\ team' = [exists |-> FALSE, memberUserIds |-> <<>>]
  /\ users' = [u \in Users |-> [users[u] EXCEPT !.exists = FALSE]]
  /\ standup' = NoStandup
  /\ teams' = [teams EXCEPT !.blobs = {}]
  /\ byEmail' = [e \in EmailKeys |-> NoUserId]
  /\ UNCHANGED <<ensured, session, locked, procs, committed>>

\* the users a manager adds and removes; the handlers refuse to remove the
\* acting manager, who is u1 here
Movable == {"u2", "u3"}

\* the one of them who comes and goes while a request is running
Leaver == {"u2"}

TeamStep(Who) ==
  \/ \E u \in Who : addUserToTeam(u, "member")
  \/ \E u \in Who : removeUserFromTeam(u)
  \/ Reset

AllViewers == {[id |-> u, role |-> r] : u \in Users, r \in Roles}

\* the request slot of the runs that serve one request at a time
Solo == {"p1"}

AllIdle == \A q \in Procs : procs[q].pc = "idle"

\* one request at a time, every input, with the team operations running at
\* any point of the request
Next ==
  \/ \E p \in Solo :
       \/ CallGetOrCreate(p)
       \/ CallUpdate(p, AllViewers, Users, Tokens)
       \/ DocStep(p)
  \/ TeamStep(Leaver)

Spec == Init /\ [][Next]_vars

\* the same, with the team operations running between the requests only
NextSeq ==
  \/ \E p \in Solo :
       \/ CallGetOrCreate(p)
       \/ CallUpdate(p, AllViewers, Users, Tokens)
       \/ DocStep(p)
  \/ AllIdle /\ TeamStep(Movable)

SpecSeq == Init /\ [][NextSeq]_vars

\* one request at a time, members leaving and joining between the requests,
\* and no reset of the data
NextRejoin ==
  \/ \E p \in Solo :
       \/ CallGetOrCreate(p)
       \/ CallUpdate(p, AllViewers, Users, Tokens)
       \/ DocStep(p)
  \/ AllIdle /\ \E u \in Movable : addUserToTeam(u, "member")
  \/ AllIdle /\ \E u \in Movable : removeUserFromTeam(u)

SpecRejoin == Init /\ [][NextRejoin]_vars

\* ------------------------------------------------------ the update handler
\* POST /api/auth/verify: the session cookie carries the user's role of now
Login(u) ==
  /\ users[u].exists
  /\ session' = [session EXCEPT ![u] = users[u].role]
  /\ UNCHANGED <<byEmail, teams, ensured, team, users, standup, locked, procs, committed>>

\* setUserRoleForTeam({teamId, userId, role}): the stored role is replaced
setUserRoleForTeam(userId, role) ==
  /\ users[userId].exists
  /\ users' = [users EXCEPT ![userId] = Upserted(UserOnTeam(@, TeamId, role))]
  /\ byEmail' = [byEmail EXCEPT ![toLowerCase(users[userId].email)] = userId]
  /\ UNCHANGED <<teams, ensured, team, standup, session, locked, procs, committed>>

\* the clock passes date + standupCutoffTime
Tick ==
  /\ ~locked
  /\ locked' = TRUE
  /\ UNCHANGED <<byEmail, teams, ensured, team, users, standup, session, procs, committed>>

\* the cutoff check that never locks
PastCutoff_Never(isLocked) == FALSE

\* dayjs().isAfter(cutoffAt) of the update handler
PastCutoff(isLocked) == isLocked

\* the header check that lets every request through
MissingIfMatch_Never(header) == FALSE

\* !String(req.headers['if-match'] || ''): no header, or an empty one
MissingIfMatch(header) == header = E

\* PUT /api/standup/update up to the first await of updateStandupEntry: the
\* session, the team, the cutoff and the If-Match header.  The repair branch
\* of ensureTeamForViewer needs a user blob without its team blob, which only
\* a write landing after Reset leaves behind (see SpecRepair); the guard keeps
\* the handler to the states that need no repair.
HandlerUpdate(p, u, userId, payload, header) ==
  /\ procs[p].pc = "idle"
  /\ session[u] = "none" \/ team.exists \/ ~users[u].exists
  /\ standup.version < MaxVersion
  /\ LET req == [IdleProc EXCEPT !.via = "handler", !.viewerUserId = u,
                                 !.userId = userId, !.payload = payload,
                                 !.ifMatch = header,
                                 !.storedRole = IF users[u].exists THEN users[u].role ELSE ""]
     IN
     procs' = [procs EXCEPT ![p] =
       IF session[u] = "none" THEN Done(req, "Unauthorized", 401)
       ELSE IF ~team.exists THEN Done(req, "Team not found", 404)
       ELSE IF PastCutoff(locked) THEN Done(req, "Standup locked after cutoff", 403)
       ELSE IF MissingIfMatch(header) THEN Done(req, "Missing If-Match header", 428)
       ELSE StartUpdate([req EXCEPT !.op = "update", !.team = team.memberUserIds,
                                    !.viewerRole = session[u]])]
  /\ UNCHANGED <<byEmail, teams, ensured, team, users, standup, session, locked, committed>>

\* the users who sign in to the team's pages
Signed == {"u1", "u2"}

HeaderTokens == {E} \cup {String(v) : v \in 0..MaxVersion}

NextHandler ==
  \/ \E p \in Solo :
       \/ \E u \in Signed, userId \in Signed, payload \in Payloads,
             header \in HeaderTokens :
            HandlerUpdate(p, u, userId, payload, header)
       \/ DocStep(p)
  \/ \E u \in Signed : Login(u)
  \/ \E u \in Signed, role \in Roles : setUserRoleForTeam(u, role)
  \/ Tick

SpecHandler == Init /\ [][NextHandler]_vars

\* ------------------------------------------------------ team self-healing
\* getTeam(teamId) finds a blob among the stored ones
TeamIn(ts, teamId) ==
  IF teamId = TeamId THEN team.exists
  ELSE \E t \in ts.blobs : t.id = teamId

HasTeam(teamId) == TeamIn(teams, teamId)

\* the user record of the repair with its team reference left as it was
RepairedUser_ActiveKept(user, teamId, role) ==
  [normalizeUser(user) EXCEPT !.role = role]

\* the user record the repair hands to upsertUser: attached to the repaired team
RepairedUser(user, teamId, role) ==
  [normalizeUser(user) EXCEPT !.activeTeamId = teamId, !.teamId = teamId,
                              !.role = role,
                              !.memberships = <<Membership(teamId, role)>>]

\* createTeam({name, standupCutoffTime, createdByUserId}) with the id drawn
createTeam(teamId, createdByUserId) ==
  [id |-> teamId, memberUserIds |-> <<createdByUserId>>,
   createdByUserId |-> createdByUserId]

\* what the stores hold: the team, user, standup and email mapping blobs
Storage == <<team, users, standup, teams, byEmail>>

\* the team the viewer's session names
ViewerTeamId(viewer) ==
  IF viewer.activeTeamId # "" THEN viewer.activeTeamId ELSE viewer.teamId

\* ensureTeamForViewer going on to the repair without looking for the user blob
NeedsRepair_UserUnchecked(viewer) ==
  LET teamId == ViewerTeamId(viewer)
      existing == teamId # "" /\ HasTeam(teamId)
      user == normalizeUser(users[viewer.id])
      existingForUser == user.activeTeamId # "" /\ HasTeam(user.activeTeamId)
  IN viewer.id # "" /\ ~existing /\ ~existingForUser

\* ensureTeamForViewer reaches its repair: no team for the session, a stored
\* user, no team for the user either
NeedsRepair(viewer) ==
  LET teamId == ViewerTeamId(viewer)
      existing == teamId # "" /\ HasTeam(teamId)
      user == normalizeUser(users[viewer.id])
      existingForUser == user.activeTeamId # "" /\ HasTeam(user.activeTeamId)
  IN viewer.id # "" /\ ~existing /\ users[viewer.id].exists /\ ~existingForUser

\* the id createTeam draws for the repaired team
RepairedId == TeamIds[teams.minted + 1]

\* the role of the repair
RepairRole(viewer) ==
  LET user == normalizeUser(users[viewer.id]) IN
  IF viewer.role = "manager" THEN "manager"
  ELSE getRoleForTeam(user, IF user.activeTeamId # "" THEN user.activeTeamId
                            ELSE user.teamId)

\* what ensureTeamForViewer returns: the id of a team, or null
EnsureResult(viewer) ==
  LET teamId == ViewerTeamId(viewer)
      user == normalizeUser(users[viewer.id])
  IN IF viewer.id = "" THEN NoTeam
     ELSE IF teamId # "" /\ HasTeam(teamId) THEN teamId
     ELSE IF NeedsRepair(viewer) THEN RepairedId
     ELSE IF ~users[viewer.id].exists THEN NoTeam
     ELSE user.activeTeamId

\* the blobs after ensureTeamForViewer(viewer)
TeamsAfterEnsure(viewer) ==
  IF NeedsRepair(viewer)
  THEN [minted |-> teams.minted + 1,
        blobs |-> teams.blobs \cup {createTeam(RepairedId, viewer.id)}]
  ELSE teams

UsersAfterEnsure(viewer) ==
  IF NeedsRepair(viewer)
  THEN [users EXCEPT ![viewer.id] =
          Upserted(RepairedUser(@, RepairedId, RepairRole(viewer)))]
  ELSE users

ByEmailAfterEnsure(viewer) ==
  IF NeedsRepair(viewer)
  THEN [byEmail EXCEPT ![toLowerCase(users[viewer.id].email)] = viewer.id]
  ELSE byEmail

\* ensureTeamForViewer(viewer), one call with nothing running beside it
ensureTeamForViewer(viewer) ==
  LET again == ensured.count >= 1 /\ ensured.viewer = viewer /\ ensured.after = Storage
  IN /\ NeedsRepair(viewer) => teams.minted < MaxTeams
     /\ again => ensured.count < 2
     /\ teams' = TeamsAfterEnsure(viewer)
     /\ users' = UsersAfterEnsure(viewer)
     /\ byEmail' = ByEmailAfterEnsure(viewer)
     /\ ensured' = [count |-> IF again THEN ensured.count + 1 ELSE 1,
                    viewer |-> viewer, result |-> EnsureResult(viewer),
                    repaired |-> IF again THEN ensured.repaired ELSE NeedsRepair(viewer),
                    after |-> <<team, users', standup, teams', byEmail'>>]
     /\ UNCHANGED <<team, standup, session, locked, procs, committed>>

\* INITIAL_MANAGER_EMAIL of the deployment, trimmed and lower-cased
BootstrapEmail == toLowerCase(<<"A">>)

\* ensureBootstrapTeamAndManager() with the manager's email mapping stored:
\* the user is given a new team when theirs is missing, else promoted
ensureBootstrapTeamAndManager ==
  LET id == byEmail[BootstrapEmail]
      user == users[id]
      existingTeam == user.teamId # "" /\ HasTeam(user.teamId)
  IN /\ id # NoUserId
     /\ users[id].exists
     /\ IF ~existingTeam
        THEN /\ teams.minted < MaxTeams
             /\ teams' = [minted |-> teams.minted + 1,
                          blobs |-> teams.blobs \cup {createTeam(RepairedId, id)}]
             /\ users' = [users EXCEPT ![id] =
                            [user EXCEPT !.teamId = RepairedId, !.role = "manager"]]
             /\ byEmail' = [byEmail EXCEPT ![toLowerCase(user.email)] = id]
        ELSE /\ user.role # "manager"
             /\ users' = [users EXCEPT ![id] = [user EXCEPT !.role = "manager"]]
             /\ UNCHANGED <<teams, byEmail>>
     /\ UNCHANGED <<ensured, team, standup, session, locked, procs, committed>>

\* POST /api/auth?op=request-link: getUserByEmail(email) reads the user record
\* through the email mapping
getUserByEmail(p, u) ==
  /\ procs[p].pc = "idle"
  /\ byEmail[toLowerCase(EmailOf(u))] = u
  /\ users[u].exists
  /\ procs' = [procs EXCEPT ![p] =
       [IdleProc EXCEPT !.pc = "upsert", !.op = "request-link", !.via = "handler",
                        !.userId = u, !.data = <<normalizeUser(users[u])>>]]
  /\ UNCHANGED <<byEmail, teams, ensured, team, users, standup, session, locked, committed>>

\* ... and upsertUser({...user, email}) writes it back, and its email mapping
upsertUser(p) ==
  /\ procs[p].pc = "upsert"
  /\ users' = [users EXCEPT ![procs[p].userId] = Upserted(procs[p].data[1])]
  /\ byEmail' = [byEmail EXCEPT ![toLowerCase(procs[p].data[1].email)] = procs[p].userId]
  /\ procs' = [procs EXCEPT ![p] = Done(@, "ok", 200)]
  /\ UNCHANGED <<teams, ensured, team, standup, session, locked, committed>>

\* the session cookies in use: issued by verify (teamId only) or by
\* select-team (activeTeamId too), for a team the user was on
RepairViewers ==
  LET known == {TeamId} \cup {TeamIds[k] : k \in 1..teams.minted} IN
  {v \in [id : Signed, teamId : known, activeTeamId : {""} \cup known, role : Roles] :
     v.activeTeamId \in {"", v.teamId}}

\* GET /api/manager/team-members with a session cookie, from the role check
\* on: ensureTeamForViewer(viewer), then getTeam of the team the session names
ManagerRequest(p, viewer) ==
  LET req == [IdleProc EXCEPT !.via = "manager", !.op = "team-members",
                              !.viewerUserId = viewer.id, !.viewerRole = viewer.role]
      found == TeamIn(TeamsAfterEnsure(viewer), ViewerTeamId(viewer))
  IN /\ procs[p].pc = "idle"
     /\ IF viewer.role # "manager"
        THEN /\ procs' = [procs EXCEPT ![p] = Done(req, "Manager only", 403)]
             /\ UNCHANGED <<teams, users, byEmail>>
        ELSE /\ NeedsRepair(viewer) => teams.minted < MaxTeams
             /\ teams' = TeamsAfterEnsure(viewer)
             /\ users' = UsersAfterEnsure(viewer)
             /\ byEmail' = ByEmailAfterEnsure(viewer)
             /\ procs' = [procs EXCEPT ![p] =
                  IF found
                  THEN Done([req EXCEPT !.wrote = NeedsRepair(viewer)], "ok", 200)
                  ELSE Done([req EXCEPT !.wrote = NeedsRepair(viewer)],
                            "Team not found", 404)]
     /\ UNCHANGED <<ensured, team, standup, session, locked, committed>>

NextRepair ==
  \/ \E p \in Solo :
       \/ \E u \in Signed : getUserByEmail(p, u)
       \/ upsertUser(p)
       \/ Return(p)
       \/ \E viewer \in RepairViewers : ManagerRequest(p, viewer)
  \/ Reset
  \/ ensureBootstrapTeamAndManager
  \/ \E viewer \in RepairViewers : ensureTeamForViewer(viewer)

SpecRepair == Init /\ [][NextRepair]_vars

\* ------------------------------------------------------ the user records
\* the record ensureBootstrapTeamAndManager stores for the first manager:
\* legacy fields only
BootstrapUser(u) ==
  [exists |-> TRUE, name |-> NameOf(u), email |-> BootstrapEmail,
   role |-> "manager", teamId |-> TeamId, activeTeamId |-> "",
   memberships |-> <<>>]

\* the store after the bootstrap and one added member; u3 is an id not drawn yet
InitUsers ==
  /\ team = [exists |-> TRUE, memberUserIds |-> <<"u1", "u2">>]
  /\ users = [u \in Users |->
                IF u = "u1" THEN BootstrapUser(u)
                ELSE IF u = "u2" THEN StoredUser(u, "member")
                ELSE [StoredUser(u, "member") EXCEPT !.exists = FALSE]]
  /\ byEmail = [e \in EmailKeys |->
                  IF e = BootstrapEmail THEN "u1"
                  ELSE IF e = EmailOf("u2") THEN "u2" ELSE NoUserId]
  /\ standup = NoStandup
  /\ session = [u \in Users |-> "none"]
  /\ locked = FALSE
  /\ procs = [p \in Procs |-> IdleProc]
  /\ committed = [u \in Users |-> NoPayload]
  /\ teams = NoTeams
  /\ ensured = NoCall

\* updateUserProfile(userId, {email}): the mapping of the new address is
\* written, then upsertUser writes the user and the mapping again
updateUserProfile(userId, email) ==
  LET existing == normalizeUser(users[userId])
      updated == [existing EXCEPT !.email = toLowerCase(email)]
  IN /\ users[userId].exists
     /\ users' = [users EXCEPT ![userId] = Upserted(updated)]
     /\ byEmail' = [byEmail EXCEPT ![toLowerCase(updated.email)] = userId]
     /\ UNCHANGED <<teams, ensured, team, standup, session, locked, procs, committed>>

\* POST /api/manager/team-members: the user of the address, or a new one with
\* a fresh id, is upserted and put on the team
AddMember(email, role) ==
  LET key == toLowerCase(email)
      found == byEmail[key] # NoUserId /\ users[byEmail[key]].exists
      fresh == CHOOSE u \in Users : ~users[u].exists
      id == IF found THEN byEmail[key] ELSE fresh
      user == IF found THEN normalizeUser(users[id])
              ELSE [exists |-> TRUE, name |-> NameOf(id), email |-> key,
                    role |-> "member", teamId |-> TeamId, activeTeamId |-> "",
                    memberships |-> <<>>]
  IN /\ team.exists
     /\ found \/ \E u \in Users : ~users[u].exists
     /\ users' = [users EXCEPT ![id] = Upserted(UserOnTeam(Upserted(user), TeamId, role))]
     /\ byEmail' = [byEmail EXCEPT ![key] = id]
     /\ team' = [team EXCEPT !.memberUserIds =
                    IF InSeq(id, @) THEN @ ELSE Append(@, id)]
     /\ UNCHANGED <<teams, ensured, standup, session, locked, procs, committed>>

NextUsers ==
  \/ \E email \in Emails, role \in Roles : AddMember(email, role)
  \/ \E u \in Signed, email \in Emails : updateUserProfile(u, email)
  \/ \E u \in Signed, role \in Roles : setUserRoleForTeam(u, role)
  \/ \E u \in Leaver : removeUserFromTeam(u)
  \/ ensureBootstrapTeamAndManager

SpecUsers == InitUsers /\ [][NextUsers]_vars

\* ------------------------------------------------------- the status badge
\* a form with its three fields typed in: the client shows calcStatus of the
\* fields, the server computes it for the row it stores
InitCalc ==
  /\ team = [exists |-> TRUE, memberUserIds |-> <<"u1", "u2">>]
  /\ users = [u \in Users |->
                StoredUser(u, IF u = "u1" THEN "manager" ELSE "member")]
  /\ standup = NoStandup
  /\ session = [u \in Users |-> "none"]
  /\ locked = FALSE
  /\ committed = [u \in Users |-> NoPayload]
  /\ teams = NoTeams
  /\ ensured = NoCall
  /\ byEmail = [e \in EmailKeys |->
                  IF \E u \in Users : EmailOf(u) = e
                  THEN CHOOSE u \in Users : EmailOf(u) = e ELSE NoUserId]
  /\ \E y \in Texts, t \in Texts, b \in Texts :
       procs = [p \in Procs |->
                  IF p \in Solo
                  THEN [IdleProc EXCEPT !.pc = "calc", !.op = "calc", !.via = "form",
                                        !.payload = <<y, t, b>>]
                  ELSE IdleProc]

\* calcStatus(opts.yesterday, opts.today, opts.blockers) on the server
ServerCalcStatus(p) ==
  /\ procs[p].pc = "calc"
  /\ procs[p].result = ""
  /\ procs' = [procs EXCEPT ![p].result =
                  calcStatus(procs[p].payload[1], procs[p].payload[2], procs[p].payload[3])]
  /\ UNCHANGED <<byEmail, teams, ensured, team, users, standup, session, locked, committed>>

\* calcStatus({yesterday, today, blockers}) on the client
ClientCalcStatus(p) ==
  /\ procs[p].pc = "calc"
  /\ procs[p].shown = ""
  /\ procs' = [procs EXCEPT ![p].shown =
                  calcStatusClient([yesterday |-> procs[p].payload[1],
                                    today |-> procs[p].payload[2],
                                    blockers |-> procs[p].payload[3]])]
  /\ UNCHANGED <<byEmail, teams, ensured, team, users, standup, session, locked, committed>>

NextCalc ==
  \E p \in Solo :
    \/ ServerCalcStatus(p)
    \/ ClientCalcStatus(p)

SpecCalc == InitCalc /\ [][NextCalc]_vars

\* ------------------------------------------------------ the team helpers
\* the team ids of the drawn user records
TeamPool == {(<<TeamId>> \o TeamIds)[k] : k \in 1..MaxMemberships}

\* membership lists as the write paths build them: one entry per team
MembershipLists ==
  LET entries == [teamId : TeamPool, role : Roles]
      lists == UNION {[1..n -> entries] : n \in 0..MaxMemberships}
  IN {l \in lists : \A i, j \in 1..Len(l) : l[i].teamId = l[j].teamId => i = j}

\* user records, legacy ones (no memberships, no active team) among them
UserRecords ==
  [exists : {TRUE}, name : {NameOf("u1")}, email : {EmailOf("u1")},
   role : Roles, teamId : {""} \cup TeamPool,
   activeTeamId : {""} \cup TeamPool, memberships : MembershipLists]

\* a user record and a team id handed to the two helpers
InitRoles ==
  /\ team = [exists |-> TRUE, memberUserIds |-> <<"u1", "u2">>]
  /\ users = [u \in Users |->
                StoredUser(u, IF u = "u1" THEN "manager" ELSE "member")]
  /\ standup = NoStandup
  /\ session = [u \in Users |-> "none"]
  /\ locked = FALSE
  /\ committed = [u \in Users |-> NoPayload]
  /\ teams = NoTeams
  /\ ensured = NoCall
  /\ byEmail = [e \in EmailKeys |->
                  IF \E u \in Users : EmailOf(u) = e
                  THEN CHOOSE u \in Users : EmailOf(u) = e ELSE NoUserId]
  /\ \E user \in UserRecords, teamId \in TeamPool :
       procs = [p \in Procs |->
                  IF p \in Solo
                  THEN [IdleProc EXCEPT !.pc = "roles", !.op = "roles", !.via = "direct",
                                        !.user = <<user>>, !.query = teamId]
                  ELSE IdleProc]

\* getRoleForTeam(user, teamId)
CallGetRoleForTeam(p) ==
  /\ procs[p].pc = "roles"
  /\ procs[p].result = ""
  /\ procs' = [procs EXCEPT ![p].result = getRoleForTeam(procs[p].user[1], procs[p].query)]
  /\ UNCHANGED <<byEmail, teams, ensured, team, users, standup, session, locked, committed>>

\* userTeamIds(user)
CallUserTeamIds(p) ==
  /\ procs[p].pc = "roles"
  /\ procs[p].shown = ""
  /\ procs' = [procs EXCEPT ![p].teamIds = userTeamIds(procs[p].user[1]),
                            ![p].shown = "teamIds"]
  /\ UNCHANGED <<byEmail, teams, ensured, team, users, standup, session, locked, committed>>

NextRoles ==
  \E p \in Solo :
    \/ CallGetRoleForTeam(p)
    \/ CallUserTeamIds(p)

SpecRoles == InitRoles /\ [][NextRoles]_vars

\* ------------------------------------------- addUserToTeam, await by await
\* getTeam(opts.teamId): the team blob is read into the call
AddGetTeam(p, userId, role) ==
  /\ procs[p].pc = "idle"
  /\ procs' = [procs EXCEPT ![p] =
       LET req == [IdleProc EXCEPT !.op = "addUserToTeam", !.via = "direct",
                                   !.userId = userId, !.role = role] IN
       IF ~team.exists THEN Done(req, "null", 0)
       ELSE [req EXCEPT !.pc = "add_user", !.team = team.memberUserIds]]
  /\ UNCHANGED <<byEmail, teams, ensured, team, users, standup, session, locked, committed>>

\* getUserById(opts.userId), then the membership and the member list are
\* changed in the call's own copies
AddGetUser(p) ==
  /\ procs[p].pc = "add_user"
  /\ LET pr == procs[p] IN
     procs' = [procs EXCEPT ![p] =
       IF ~users[pr.userId].exists THEN Done(pr, "null", 0)
       ELSE [pr EXCEPT !.pc = "add_upsert",
                       !.user = <<UserOnTeam(users[pr.userId], TeamId, pr.role)>>,
                       !.team = IF InSeq(pr.userId, @) THEN @ ELSE Append(@, pr.userId)]]
  /\ UNCHANGED <<byEmail, teams, ensured, team, users, standup, session, locked, committed>>

\* upsertUser(u): the user blob and its email mapping
AddUpsertUser(p) ==
  /\ procs[p].pc = "add_upsert"
  /\ users' = [users EXCEPT ![procs[p].userId] = Upserted(procs[p].user[1])]
  /\ byEmail' = [byEmail EXCEPT ![toLowerCase(procs[p].user[1].email)] = procs[p].userId]
  /\ procs' = [procs EXCEPT ![p].pc = "add_save"]
  /\ UNCHANGED <<teams, ensured, team, standup, session, locked, committed>>

\* the team blob saveTeam(team) stores: the call's copy
saveTeam(pr) ==
  [exists |-> TRUE, memberUserIds |-> pr.team]

\* saveTeam(team), and the return of addUserToTeam
AddSaveTeam(p) ==
  /\ procs[p].pc = "add_save"
  /\ team' = saveTeam(procs[p])
  /\ procs' = [procs EXCEPT ![p] = Done(@, "ok", 200)]
  /\ UNCHANGED <<byEmail, teams, ensured, users, standup, session, locked, committed>>

\* two addUserToTeam calls side by side; members leave between calls
NextTeamRace ==
  \/ \E p \in Procs :
       \/ \E u \in Movable, role \in Roles : AddGetTeam(p, u, role)
       \/ AddGetUser(p)
       \/ AddUpsertUser(p)
       \/ AddSaveTeam(p)
       \/ Return(p)
  \/ AllIdle /\ \E u \in Movable : removeUserFromTeam(u)

SpecTeamRace == Init /\ [][NextTeamRace]_vars

\* ------------------------------------- ensureTeamForViewer, await by await
\* ensureTeamForViewer(viewer) up to its first await
EnsureStart(p, viewer) ==
  /\ procs[p].pc = "idle"
  /\ procs' = [procs EXCEPT ![p] =
       LET req == [IdleProc EXCEPT !.op = "ensure", !.via = "direct",
                                   !.viewerUserId = viewer.id, !.viewerRole = viewer.role,
                                   !.query = ViewerTeamId(viewer)] IN
       IF viewer.id = "" THEN Done(req, NoTeam, 0)
       ELSE [req EXCEPT !.pc = "ens_team"]]
  /\ UNCHANGED <<byEmail, teams, ensured, team, users, standup, session, locked, committed>>

\* getTeam(teamId) of the team the session names
EnsureGetTeam(p) ==
  /\ procs[p].pc = "ens_team"
  /\ LET pr == procs[p] IN
     procs' = [procs EXCEPT ![p] =
       IF pr.query # "" /\ HasTeam(pr.query) THEN Done(pr, pr.query, 200)
       ELSE [pr EXCEPT !.pc = "ens_user"]]
  /\ UNCHANGED <<byEmail, teams, ensured, team, users, standup, session, locked, committed>>

\* findBlob and readJson of the user blob, normalized
EnsureGetUser(p) ==
  /\ procs[p].pc = "ens_user"
  /\ LET pr == procs[p] IN
     procs' = [procs EXCEPT ![p] =
       IF ~users[pr.viewerUserId].exists THEN Done(pr, NoTeam, 0)
       ELSE [pr EXCEPT !.pc = "ens_user_team",
                       !.user = <<normalizeUser(users[pr.viewerUserId])>>]]
  /\ UNCHANGED <<byEmail, teams, ensured, team, users, standup, session, locked, committed>>

\* getTeam(user.activeTeamId)
EnsureGetUserTeam(p) ==
  /\ procs[p].pc = "ens_user_team"
  /\ LET pr == procs[p]
         user == pr.user[1] IN
     procs' = [procs EXCEPT ![p] =
       IF user.activeTeamId # "" /\ HasTeam(user.activeTeamId)
       THEN Done(pr, user.activeTeamId, 200)
       ELSE [pr EXCEPT !.pc = "ens_create"]]
  /\ UNCHANGED <<byEmail, teams, ensured, team, users, standup, session, locked, committed>>

\* createTeam(...): a team blob under a fresh id
EnsureCreateTeam(p) ==
  /\ procs[p].pc = "ens_create"
  /\ teams.minted < MaxTeams
  /\ teams' = [minted |-> teams.minted + 1,
               blobs |-> teams.blobs \cup {createTeam(RepairedId, procs[p].viewerUserId)}]
  /\ procs' = [procs EXCEPT ![p].pc = "ens_upsert", ![p].query = RepairedId,
                            ![p].wrote = TRUE]
  /\ UNCHANGED <<byEmail, ensured, team, users, standup, session, locked, committed>>

\* upsertUser(u) of the repair, and the return of the repaired team
EnsureUpsertUser(p) ==
  /\ procs[p].pc = "ens_upsert"
  /\ LET pr == procs[p]
         user == pr.user[1]
         role == IF pr.viewerRole = "manager" THEN "manager"
                 ELSE getRoleForTeam(user, IF user.activeTeamId # "" THEN user.activeTeamId
                                           ELSE user.teamId)
     IN /\ users' = [users EXCEPT ![pr.viewerUserId] =
                       Upserted(RepairedUser(user, pr.query, role))]
        /\ byEmail' = [byEmail EXCEPT ![toLowerCase(user.email)] = pr.viewerUserId]
        /\ procs' = [procs EXCEPT ![p] = Done(pr, pr.query, 200)]
  /\ UNCHANGED <<teams, ensured, team, standup, session, locked, committed>>

\* no call of ensureTeamForViewer is under way or waiting to be returned
NoneEnsuring == \A q \in Procs : procs[q].op # "ensure"

\* two requests side by side, each a request-link or a call of
\* ensureTeamForViewer; the reset and the write of a request-link run
\* between the calls of ensureTeamForViewer, not during them
NextRepairRace ==
  \/ \E p \in Procs :
       \/ \E u \in Signed : getUserByEmail(p, u)
       \/ NoneEnsuring /\ upsertUser(p)
       \/ \E viewer \in RepairViewers : EnsureStart(p, viewer)
       \/ EnsureGetTeam(p)
       \/ EnsureGetUser(p)
       \/ EnsureGetUserTeam(p)
       \/ EnsureCreateTeam(p)
       \/ EnsureUpsertUser(p)
       \/ Return(p)
  \/ NoneEnsuring /\ Reset

SpecRepairRace == Init /\ [][NextRepairRace]_vars

\* --------------------------------------------------------- the today page
\* the row the page edits
EditTarget == "u2"

\* the sessions the page is opened with
PageViewers == {[id |-> "u1", role |-> "manager"], [id |-> "u2", role |-> "member"]}

\* the fields of the row of uid in the rows of a response
RowOf(rows, uid) ==
  IF \E k \in 1..Len(rows) : rows[k].userId = uid
  THEN LET k == CHOOSE k \in 1..Len(rows) : rows[k].userId = uid
       IN <<rows[k].yesterday, rows[k].today, rows[k].blockers>>
  ELSE <<E, E, E>>

\* the token as the server stores it now
StoredToken == IF standup.exists THEN String(standup.version) ELSE E

\* canEditRow(row) before the cutoff
canEditRow(page) ==
  page.viewer.role = "manager" \/ page.viewer.id = EditTarget

\* the If-Match value of save(row): rows carry no version
ifMatchOf(page) ==
  IF page.viewer.role = "manager" THEN page.etag ELSE String(0)

\* mergeLatestIntoCurrent(current, latest): a dirty row stays as it is
mergeLatestIntoCurrent(page, latest) ==
  [page EXCEPT !.etag = latest.etag,
               !.row = IF page.dirty THEN page.row ELSE latest.row,
               !.base = IF page.dirty THEN page.base ELSE latest.row]

\* what load() and pollOnce() do with the response of the GET
Received(page, latest) ==
  IF page.intent = "load"
  THEN [page EXCEPT !.open = TRUE, !.etag = latest.etag,
                    !.row = latest.row, !.base = latest.row,
                    !.afterPut = FALSE,
                    !.reloadStale = @ \/ (page.afterPut /\ latest.etag # StoredToken)]
  ELSE IF latest.etag # page.etag THEN mergeLatestIntoCurrent(page, latest)
  ELSE page

\* no request is being served
NoRequest == \A q \in Procs : procs[q].pc = "idle"

\* load() or pollOnce(): apiFetch of GET /api/standup?op=today, answered from
\* the GET cache while its entry is young, else sent to the server
PageGet(p, viewer, intent) ==
  /\ NoRequest
  /\ team.exists
  /\ IF procs[p].page.open THEN viewer = procs[p].page.viewer ELSE intent = "load"
  /\ LET page == [procs[p].page EXCEPT !.viewer = viewer, !.intent = intent] IN
     procs' = [procs EXCEPT ![p] =
       IF page.cache # <<>> /\ page.fresh
       THEN [IdleProc EXCEPT !.page = Received(page, page.cache[1])]
       ELSE [IdleProc EXCEPT !.pc = "find", !.op = "get", !.via = "page",
                             !.team = team.memberUserIds, !.page = page]]
  /\ UNCHANGED <<byEmail, teams, ensured, team, users, standup, session, locked, committed>>

\* updateRow(row, patch): the row is marked dirty and changed in the page
PageEdit(p, payload) ==
  /\ procs[p].pc = "idle"
  /\ procs[p].page.open
  /\ canEditRow(procs[p].page)
  /\ procs' = [procs EXCEPT ![p].page.row = payload, ![p].page.dirty = TRUE]
  /\ UNCHANGED <<byEmail, teams, ensured, team, users, standup, session, locked, committed>>

\* save(row): PUT /api/standup?op=update with the If-Match of the page
PageSave(p) ==
  /\ NoRequest
  /\ team.exists
  /\ standup.version < MaxVersion
  /\ procs[p].page.open
  /\ canEditRow(procs[p].page)
  /\ LET page == procs[p].page IN
     procs' = [procs EXCEPT ![p] =
       StartUpdate([IdleProc EXCEPT
         !.op = "update", !.via = "page", !.team = team.memberUserIds,
         !.viewerUserId = page.viewer.id, !.viewerRole = page.viewer.role,
         !.userId = EditTarget, !.payload = page.row, !.ifMatch = ifMatchOf(page),
         !.page = [page EXCEPT
            !.intent = "save",
            !.current = standup.exists /\ page.etag = StoredToken,
            !.overwrites = /\ page.dirty /\ standup.exists
                           /\ RowOf(standup.rows, EditTarget) # page.base]])]
  /\ UNCHANGED <<byEmail, teams, ensured, team, users, standup, session, locked, committed>>

\* the response reaches the page: a GET is cached and handed to load() or
\* pollOnce(); a successful PUT is merged and the row's dirty mark cleared;
\* a failed request leaves data.value as it is
PageReceive(p) ==
  /\ procs[p].pc = "done"
  /\ procs[p].via = "page"
  /\ LET pr == procs[p]
         page == pr.page
         latest == [etag |-> pr.etag, row |-> RowOf(pr.doc.rows, EditTarget)]
     IN procs' = [procs EXCEPT ![p] = [IdleProc EXCEPT !.page =
          IF pr.status # 200
          THEN [page EXCEPT !.afterPut = @ \/ pr.op = "update"]
          ELSE IF pr.op = "get"
          THEN [Received(page, latest) EXCEPT !.cache = <<latest>>, !.fresh = TRUE]
          ELSE [mergeLatestIntoCurrent(page, latest) EXCEPT
                  !.base = latest.row, !.dirty = FALSE, !.afterPut = TRUE]]]
  /\ UNCHANGED <<byEmail, teams, ensured, team, users, standup, session, locked, committed>>

\* DEFAULT_GET_TTL_MS have passed since the cached GET
CacheExpire(p) ==
  /\ procs[p].pc = "idle"
  /\ procs[p].page.cache # <<>>
  /\ procs[p].page.fresh
  /\ procs' = [procs EXCEPT ![p].page.fresh = FALSE]
  /\ UNCHANGED <<byEmail, teams, ensured, team, users, standup, session, locked, committed>>

\* the page in one browser, and the member saving the same row from
\* elsewhere with the token of the stored document; one request at a time
NextPage ==
  \/ \E p \in Solo :
       \/ \E viewer \in PageViewers, intent \in {"load", "poll"} : PageGet(p, viewer, intent)
       \/ \E payload \in Payloads : PageEdit(p, payload)
       \/ PageSave(p)
       \/ PageReceive(p)
       \/ CacheExpire(p)
       \/ FindStandup(p)
       \/ ReadStandup(p)
       \/ FindUser(p)
       \/ ReadUser(p)
       \/ CreatePut(p)
       \/ PutStandup(p)
  \/ \E p \in Procs \ Solo :
       \/ NoRequest /\ CallUpdate(p, {[id |-> EditTarget, role |-> "member"]},
                                  {EditTarget}, {StoredToken})
       \/ DocStep(p)

SpecPage == Init /\ [][NextPage]_vars

\* ---------------------------------------------------------- fetchWithRetry
\* the statuses a blob read is answered with
Statuses == {200, 400, 403, 404, 429, 500, 503}

\* what one fetch gives: a response, or a thrown network error
Answers ==
  {[thrown |-> TRUE, status |-> 0]} \cup {[thrown |-> FALSE, status |-> s] : s \in Statuses}

\* res.ok
IsOk(res) == res.status >= 200 /\ res.status <= 299

\* the statuses retried once
IsTransient(res) == res.status = 429 \/ res.status >= 500

\* each call of fetchWithRetry starts its loop, the network's answers drawn
InitFetch ==
  /\ team = [exists |-> TRUE, memberUserIds |-> <<"u1", "u2">>]
  /\ users = [u \in Users |->
                StoredUser(u, IF u = "u1" THEN "manager" ELSE "member")]
  /\ standup = NoStandup
  /\ session = [u \in Users |-> "none"]
  /\ locked = FALSE
  /\ committed = [u \in Users |-> NoPayload]
  /\ teams = NoTeams
  /\ ensured = NoCall
  /\ byEmail = [e \in EmailKeys |->
                  IF \E u \in Users : EmailOf(u) = e
                  THEN CHOOSE u \in Users : EmailOf(u) = e ELSE NoUserId]
  /\ procs \in [Procs -> {[IdleProc EXCEPT !.net = [NoFetch EXCEPT !.answers = <<a, b>>,
                                                                 !.pc = "loop"]]
                          : a \in Answers, b \in Answers}]

\* what the catch block does: lastErr = e, and the loop goes on
Caught(net, e) ==
  [net EXCEPT !.lastErr = e, !.attempt = @ + 1]

\* one pass of the loop body: the fetch, then the checks on its response
FetchAttempt(p) ==
  /\ procs[p].net.pc = "loop"
  /\ procs[p].net.attempt < 2
  /\ LET net == [procs[p].net EXCEPT !.fetches = @ + 1]
         res == net.answers[net.attempt + 1]
     IN procs' = [procs EXCEPT ![p].net =
          IF res.thrown THEN Caught(net, "network")
          ELSE IF IsOk(res) THEN [net EXCEPT !.pc = "returned"]
          ELSE IF res.status = 403 THEN Caught(net, "Forbidden")
          ELSE IF net.attempt = 0 /\ IsTransient(res)
               THEN [net EXCEPT !.attempt = @ + 1]
          ELSE Caught(net, "status")]
  /\ UNCHANGED <<byEmail, teams, ensured, team, users, standup, session, locked, committed>>

\* the loop has ended without a return: throw lastErr
FetchThrow(p) ==
  /\ procs[p].net.pc = "loop"
  /\ procs[p].net.attempt = 2
  /\ procs' = [procs EXCEPT ![p].net.pc = "thrown",
                            ![p].net.error = IF procs[p].net.lastErr # ""
                                             THEN procs[p].net.lastErr
                                             ELSE "Failed to read blob"]
  /\ UNCHANGED <<byEmail, teams, ensured, team, users, standup, session, locked, committed>>

NextFetch ==
  \E p \in Procs :
    \/ FetchAttempt(p)
    \/ FetchThrow(p)

SpecFetch == InitFetch /\ [][NextFetch]_vars

\* ================================================================ claims
Authorized(pr) == pr.viewerRole = "manager" \/ pr.viewerUserId = pr.userId

IsNumeral(t) == t # <<>> /\ \A k \in 1..Len(t) : IsDigit(t[k])

FinishedUpdate(pr) == pr.pc = "done" /\ pr.op = "update"

HasFields(row, payload) ==
  row.yesterday = payload[1] /\ row.today = payload[2] /\ row.blockers = payload[3]

\* C1: of two updateEntry operations that both read the document at version
\* V and both present token V, exactly one commits and the other fails with
\* Conflict, whatever rows they target.
C1_ExactlyOneCommits ==
  \A p, q \in Procs :
    ( /\ p # q
      /\ FinishedUpdate(procs[p]) /\ FinishedUpdate(procs[q])
      /\ Authorized(procs[p]) /\ Authorized(procs[q])
      /\ procs[p].loaded >= 0 /\ procs[q].loaded = procs[p].loaded
      /\ procs[p].ifMatch = String(procs[p].loaded)
      /\ procs[q].ifMatch = String(procs[q].loaded) )
    => \/ procs[p].result = "ok" /\ procs[q].result = "Conflict"
       \/ procs[q].result = "ok" /\ procs[p].result = "Conflict"

\* C2: the fields written by the last successful updateEntry on a row are in
\* the stored document: no write for another row erases them.
C2_CommittedEditsKept ==
  standup.exists =>
    \A u \in Users :
      committed[u] # NoPayload =>
        \E k \in 1..Len(standup.rows) :
          standup.rows[k].userId = u /\ HasFields(standup.rows[k], committed[u])

\* C3: no write to the standup key stores a version below the one stored
\* just before it.
C3_VersionNeverDecreases ==
  [][(standup.exists /\ standup'.exists) => standup'.version >= standup.version]_vars

\* The version the call met: the one it read, or the stored one when the call
\* ended without looking the document up.
Met(pr) == IF pr.looked THEN pr.loaded ELSE standup.version

MetStored(pr) == IF pr.looked THEN pr.existed ELSE standup.exists

\* An updateEntry by an authorized actor for a target on the team passed in,
\* which met the stored document and presents a numeric token other than its
\* version.
StaleCall(pr) ==
  /\ FinishedUpdate(pr)
  /\ Authorized(pr)
  /\ InSeq(pr.userId, pr.team)
  /\ MetStored(pr)
  /\ IsNumeral(pr.ifMatch)
  /\ pr.ifMatch # String(Met(pr))

\* C4: with the document stored at version V, an authorized updateEntry for a
\* target on the team with a numeric token other than V fails with Conflict
\* (409), has written nothing, and leaves the document at version V.
C4_StaleTokenConflicts ==
  [][\A p \in Procs :
       (procs[p].pc # "done" /\ StaleCall(procs'[p]))
       => /\ procs'[p].result = "Conflict"
          /\ procs'[p].status = 409
          /\ ~procs'[p].wrote
          /\ standup' = standup
          /\ standup.exists
          /\ standup.version = Met(procs'[p])]_vars

C4_Witness ==
  \E p \in Procs :
    /\ FinishedUpdate(procs[p]) /\ Authorized(procs[p])
    /\ InSeq(procs[p].userId, procs[p].team)
    /\ procs[p].existed /\ procs[p].loaded = 1 /\ procs[p].ifMatch = <<"0">>
    /\ procs[p].result = "Conflict" /\ standup.version = 1

\* C5: an updateEntry whose token is empty or not a numeral never fails with
\* Conflict.
C5_NoTokenNoConflict ==
  \A p \in Procs :
    (FinishedUpdate(procs[p]) /\ ~IsNumeral(procs[p].ifMatch))
    => procs[p].result # "Conflict"

\* An updateEntry by the manager or the target themself, for a member of the
\* team, which met the stored document and presents the decimal string of
\* its version.
FreshCall(pr) ==
  /\ FinishedUpdate(pr)
  /\ Authorized(pr)
  /\ InSeq(pr.userId, pr.team)
  /\ MetStored(pr)
  /\ pr.ifMatch = String(Met(pr))

\* C6: with nothing else running, an updateEntry by a manager or by the target
\* themself, for a team member, with token String(V) on the document stored
\* at version V, succeeds.
C6_NoSpuriousConflict ==
  [][\A p \in Procs :
       (procs[p].pc # "done" /\ FreshCall(procs'[p]))
       => procs'[p].result = "ok" /\ procs'[p].status = 200]_vars

C6_Witness ==
  \E p \in Procs :
    /\ FinishedUpdate(procs[p]) /\ procs[p].result = "ok"
    /\ procs[p].existed /\ procs[p].loaded = 1 /\ procs[p].ifMatch = <<"1">>
    /\ procs[p].viewerRole = "manager" /\ procs[p].viewerUserId # procs[p].userId
    /\ InSeq(procs[p].userId, procs[p].team)

\* C7: the putJson of a successful updateEntry that read version V stores the
\* returned document at version V+1 and the call returns the decimal string
\* of V+1; every token returned with a document is the decimal string of
\* that document's version.
C7_VersionAndToken ==
  [][\A p \in Procs :
       /\ (procs[p].pc = "put" /\ procs'[p].pc = "done")
          => /\ standup'.exists
             /\ standup'.version = procs'[p].loaded + 1
             /\ standup'.rows = procs'[p].doc.rows
             /\ procs'[p].doc.version = procs'[p].loaded + 1
             /\ procs'[p].etag = String(procs'[p].loaded + 1)
       /\ (procs[p].pc # "done" /\ procs'[p].pc = "done" /\ procs'[p].result = "ok")
          => /\ procs'[p].etag = String(procs'[p].doc.version)
             /\ Number(procs'[p].etag) = [finite |-> TRUE, value |-> procs'[p].doc.version]]_vars

C7_Witness ==
  \E p \in Procs :
    /\ FinishedUpdate(procs[p]) /\ procs[p].result = "ok"
    /\ procs[p].loaded = 1 /\ procs[p].etag = <<"2">> /\ standup.version = 2

\* C8: an updateEntry by a non-manager for another user's row fails with
\* Forbidden (403) whatever the token and the document, and never gets to
\* look the document up, create it or write it.
C8_OthersRowForbidden ==
  \A p \in Procs :
    ( /\ procs[p].op = "update"
      /\ procs[p].viewerRole # "manager"
      /\ procs[p].viewerUserId # procs[p].userId )
    => /\ procs[p].pc = "done"
       /\ procs[p].result = "Forbidden" /\ procs[p].status = 403
       /\ ~procs[p].looked /\ ~procs[p].wrote

C8_Witness ==
  \E p \in Procs :
    /\ procs[p].op = "update" /\ procs[p].result = "Forbidden"
    /\ procs[p].viewerRole = "member" /\ procs[p].viewerUserId # procs[p].userId
    /\ standup.exists /\ standup.version > 0
    /\ procs[p].ifMatch = String(standup.version)

\* C9: an update request by a user whose stored role is member, for another
\* user's row, fails with Forbidden (403), whenever the session was issued.
C9_StoredRoleDecides ==
  \A p \in Procs :
    ( /\ procs[p].via = "handler" /\ procs[p].op = "update"
      /\ procs[p].storedRole = "member"
      /\ procs[p].viewerUserId # procs[p].userId )
    => procs[p].pc = "done" /\ procs[p].status = 403

\* C10: an authorized updateEntry whose reads succeed fails with BadRequest
\* (400, 'User not on team') exactly when the target is not in the member id
\* list of the team.
C10_BadRequestIffNotMember ==
  \A p \in Procs :
    (FinishedUpdate(procs[p]) /\ Authorized(procs[p]) /\ procs[p].status # 500)
    => ( (procs[p].result = "User not on team" /\ procs[p].status = 400)
         <=> ~InSeq(procs[p].userId, procs[p].team) )

\* C10 as amended: it fails with BadRequest exactly when the reconciled
\* document has no row for the target: the target is not in the member id
\* list, or it is listed but had no row and no user blob when it was read.
C10_BadRequestIffNoRow ==
  \A p \in Procs :
    (FinishedUpdate(procs[p]) /\ Authorized(procs[p]) /\ procs[p].status # 500)
    => ( (procs[p].result = "User not on team" /\ procs[p].status = 400)
         <=> \/ ~InSeq(procs[p].userId, procs[p].team)
             \/ procs[p].userId \in procs[p].skipped )

C10_Witness ==
  \E p \in Procs :
    /\ FinishedUpdate(procs[p]) /\ Authorized(procs[p])
    /\ procs[p].result = "User not on team"
    /\ InSeq(procs[p].userId, procs[p].team)
    /\ procs[p].userId \in procs[p].skipped

\* C11: an update request handled by the update handler after the cutoff
\* never reaches updateStandupEntry and leaves the stored document as it is;
\* with a session and a team it is answered 403.
C11_LockedRejected ==
  [][\A p \in Procs :
       (procs[p].pc = "idle" /\ procs'[p].via = "handler" /\ locked)
       => /\ procs'[p].pc = "done"
          /\ procs'[p].op # "update"
          /\ ~procs'[p].looked /\ ~procs'[p].wrote
          /\ standup' = standup
          /\ (session[procs'[p].viewerUserId] # "none" /\ team.exists)
             => /\ procs'[p].status = 403
                /\ procs'[p].result = "Standup locked after cutoff"]_vars

C11_Witness ==
  \E p \in Procs :
    /\ procs[p].via = "handler" /\ procs[p].pc = "done" /\ locked
    /\ procs[p].status = 403 /\ procs[p].result = "Standup locked after cutoff"
    /\ procs[p].viewerUserId = procs[p].userId
    /\ standup.exists /\ standup.version > 0
    /\ procs[p].ifMatch = String(standup.version)

\* C12: the putJson that ends a getOrCreate which found no document stores,
\* and the call returns, a document at version 0 with one row per listed
\* member whose user record was found, in the order of the list, each with
\* empty yesterday/today/blockers and status missing; the token is "0".
C12_CreatedDocument ==
  [][\A p \in Procs :
       (procs[p].pc = "create_put" /\ procs[p].op = "get" /\ procs'[p] # procs[p])
       => LET pr == procs'[p]
              found == SelectSeq(pr.team, LAMBDA uid : uid \notin pr.skipped)
          IN /\ pr.pc = "done" /\ pr.result = "ok" /\ pr.etag = <<"0">>
             /\ pr.doc.version = 0
             /\ standup' = [exists |-> TRUE, version |-> 0, rows |-> pr.doc.rows]
             /\ Len(pr.doc.rows) = Len(found)
             /\ \A k \in 1..Len(found) :
                  /\ pr.doc.rows[k].userId = found[k]
                  /\ pr.doc.rows[k].yesterday = <<>>
                  /\ pr.doc.rows[k].today = <<>>
                  /\ pr.doc.rows[k].blockers = <<>>
                  /\ pr.doc.rows[k].status = "missing"]_vars

C12_Witness ==
  \E p \in Procs :
    /\ procs[p].pc = "done" /\ procs[p].op = "get" /\ procs[p].wrote
    /\ ~procs[p].existed /\ procs[p].etag = <<"0">>
    /\ Len(procs[p].team) = 2 /\ Len(procs[p].doc.rows) = 2
    /\ standup.exists /\ standup.rows = procs[p].doc.rows

\* the rows a getOrCreate has read from the stored document, at its last step
LoadedRows(p) == IF procs[p].pc = "read" THEN standup.rows ELSE procs[p].data

RowsFor(rows, uid) == {k \in 1..Len(rows) : rows[k].userId = uid}

\* C13: a getOrCreate on an existing document returns, in the order of the
\* member list, one row for each listed member who had a row or whose user
\* record was found: the stored row unchanged for the former, an empty row
\* with status missing for the latter, and no row for anyone else.
C13_Reconciled ==
  [][\A p \in Procs :
       ( /\ procs[p].pc # "done" /\ procs'[p].pc = "done"
         /\ procs'[p].op = "get" /\ procs'[p].existed /\ procs'[p].status = 200 )
       => LET data == LoadedRows(p)
              pr == procs'[p]
              kept == SelectSeq(pr.team,
                        LAMBDA uid : RowsFor(data, uid) # {} \/ uid \notin pr.skipped)
          IN /\ Len(pr.doc.rows) = Len(kept)
             /\ \A k \in 1..Len(kept) :
                  /\ pr.doc.rows[k].userId = kept[k]
                  /\ IF RowsFor(data, kept[k]) # {}
                     THEN \E j \in RowsFor(data, kept[k]) : pr.doc.rows[k] = data[j]
                     ELSE pr.doc.rows[k] =
                            [userId |-> kept[k], name |-> users[kept[k]].name,
                             yesterday |-> <<>>, today |-> <<>>, blockers |-> <<>>,
                             status |-> "missing"]
             /\ pr.doc.version = pr.loaded
             /\ pr.etag = String(pr.loaded)]_vars

C13_Witness ==
  \E p \in Procs :
    /\ procs[p].pc = "done" /\ procs[p].op = "get" /\ procs[p].existed
    /\ procs[p].status = 200 /\ standup.exists
    /\ \E k \in 1..Len(procs[p].doc.rows) :
         /\ procs[p].doc.rows[k].yesterday # <<>>
         /\ RowsFor(standup.rows, procs[p].doc.rows[k].userId) # {}
    /\ \E k \in 1..Len(procs[p].doc.rows) :
         RowsFor(standup.rows, procs[p].doc.rows[k].userId) = {}
    /\ \E j \in 1..Len(standup.rows) :
         RowsFor(procs[p].doc.rows, standup.rows[j].userId) = {}

\* C14: no step of a getOrCreate that found the document stored changes what
\* is stored, and the call ends without a write, also when the rows it
\* returns differ from the stored ones.
C14_ReadOnlyOnExisting ==
  [][\A p \in Procs :
       (procs'[p] # procs[p] /\ procs'[p].op = "get" /\ procs'[p].existed)
       => standup' = standup /\ ~procs'[p].wrote]_vars

C14_Witness ==
  \E p \in Procs :
    /\ procs[p].pc = "done" /\ procs[p].op = "get" /\ procs[p].existed
    /\ procs[p].status = 200 /\ ~procs[p].wrote
    /\ standup.exists /\ standup.version = procs[p].doc.version
    /\ Len(procs[p].doc.rows) # Len(standup.rows)

NonBlank(s) == \E k \in 1..Len(s) : s[k] # " "

StatusByCount(n) ==
  IF n = 0 THEN "missing" ELSE IF n = 3 THEN "prepared" ELSE "partial"

\* C16: calcStatus is decided by how many of the three texts hold a
\* character that is not a blank: missing for none, prepared for three,
\* partial for one or two; the client's calcStatus returns the same.
C16_StatusByFilledCount ==
  \A p \in Procs :
    procs[p].op = "calc" =>
      LET n == Cardinality({k \in 1..3 : NonBlank(procs[p].payload[k])}) IN
      /\ procs[p].result # "" => procs[p].result = StatusByCount(n)
      /\ procs[p].shown # "" => procs[p].shown = StatusByCount(n)
      /\ (procs[p].result # "" /\ procs[p].shown # "") => procs[p].result = procs[p].shown

C16_Witness ==
  \E p \in Procs :
    /\ procs[p].op = "calc"
    /\ procs[p].payload = << <<"x", " ">>, <<" ">>, <<>> >>
    /\ procs[p].result = "partial" /\ procs[p].shown = "partial"

\* C17: in the stored standup document every row's status is calcStatus of
\* the row's yesterday, today and blockers.
C17_StatusIsCalcStatus ==
  standup.exists =>
    \A k \in 1..Len(standup.rows) :
      standup.rows[k].status =
        calcStatus(standup.rows[k].yesterday, standup.rows[k].today, standup.rows[k].blockers)

C17_Witness ==
  /\ standup.exists /\ standup.version = 2
  /\ \E k \in 1..Len(standup.rows) :
       standup.rows[k].status = "partial" /\ standup.rows[k].today = <<" ">>
  /\ \E k \in 1..Len(standup.rows) : standup.rows[k].status = "prepared"

Unique(rows) ==
  \A j, k \in 1..Len(rows) : j # k => rows[j].userId # rows[k].userId

\* C18: no two rows of the stored document, or of a document a call is
\* building or has returned, have the same user id, whatever additions,
\* removals and updates came before.
C18_UniqueRows ==
  /\ standup.exists => Unique(standup.rows)
  /\ \A p \in Procs : Unique(procs[p].doc.rows)

C18_Witness ==
  \E p \in Procs :
    /\ FinishedUpdate(procs[p]) /\ procs[p].result = "ok"
    /\ procs[p].team = <<"u1", "u3", "u2">>
    /\ Len(procs[p].doc.rows) = 3 /\ standup.rows = procs[p].doc.rows
    /\ \E k \in 1..3 : standup.rows[k].userId = "u2" /\ standup.rows[k].status # "missing"

\* the scenario's cast and its document after each of its steps
Alice == "u1"

Bob == "u2"

Ends(p) == procs[p].pc # "done" /\ procs'[p].pc = "done"

IsMissingRow(row, uid) ==
  /\ row.userId = uid /\ row.status = "missing"
  /\ row.yesterday = <<>> /\ row.today = <<>> /\ row.blockers = <<>>

IsCreated(d) ==
  /\ d.version = 0 /\ Len(d.rows) = 2
  /\ IsMissingRow(d.rows[1], Alice) /\ IsMissingRow(d.rows[2], Bob)

BobsPayload == << <<"x">>, <<"x">>, <<"x">> >>

IsAfterBob(d) ==
  /\ d.version = 1 /\ Len(d.rows) = 2
  /\ IsMissingRow(d.rows[1], Alice)
  /\ d.rows[2].userId = Bob /\ d.rows[2].status = "prepared"
  /\ HasFields(d.rows[2], BobsPayload)

UpdateBy(pr, viewer, role, target, token) ==
  /\ pr.op = "update" /\ pr.team = <<Alice, Bob>>
  /\ pr.viewerUserId = viewer /\ pr.viewerRole = role
  /\ pr.userId = target /\ pr.ifMatch = token

\* C19: for the team of Alice (manager) and Bob, one call at a time:
\* getOrCreate with no document stored returns and stores version 0 with two
\* missing rows and token "0"; on that document Bob's update of his own row
\* with three non-empty fields and token "0" succeeds with token "1", his row
\* prepared and Alice's still missing; on that document Alice's update of
\* Bob's row with token "0" fails with Conflict and changes nothing, and with
\* token "1" it succeeds with token "2" and leaves her own row missing.
C19_Scenario ==
  [][\A p \in Procs :
       LET pr == procs'[p] IN
       /\ ( /\ Ends(p) /\ pr.op = "get" /\ pr.team = <<Alice, Bob>>
            /\ ~pr.existed /\ pr.status = 200 )
          => /\ IsCreated(pr.doc) /\ pr.etag = <<"0">>
             /\ standup'.exists /\ IsCreated(standup')
       /\ ( /\ Ends(p) /\ UpdateBy(pr, Bob, "member", Bob, <<"0">>)
            /\ pr.payload = BobsPayload
            /\ standup.exists /\ IsCreated(standup) )
          => /\ pr.result = "ok" /\ pr.status = 200 /\ pr.etag = <<"1">>
             /\ IsAfterBob(pr.doc)
             /\ standup'.exists /\ IsAfterBob(standup')
       /\ ( /\ Ends(p) /\ UpdateBy(pr, Alice, "manager", Bob, <<"0">>)
            /\ standup.exists /\ IsAfterBob(standup) )
          => /\ pr.result = "Conflict" /\ pr.status = 409
             /\ standup' = standup
       /\ ( /\ Ends(p) /\ UpdateBy(pr, Alice, "manager", Bob, <<"1">>)
            /\ standup.exists /\ IsAfterBob(standup) )
          => /\ pr.result = "ok" /\ pr.status = 200 /\ pr.etag = <<"2">>
             /\ standup'.exists /\ standup'.version = 2
             /\ IsMissingRow(standup'.rows[1], Alice)
             /\ standup'.rows[2].userId = Bob
             /\ HasFields(standup'.rows[2], pr.payload)]_vars

C19_Witness ==
  \E p \in Procs :
    /\ procs[p].pc = "done"
    /\ UpdateBy(procs[p], Alice, "manager", Bob, <<"1">>)
    /\ procs[p].result = "ok" /\ procs[p].etag = <<"2">>
    /\ procs[p].payload # BobsPayload
    /\ standup.exists /\ standup.version = 2
    /\ IsMissingRow(standup.rows[1], Alice)
    /\ standup.rows[2].userId = Bob /\ standup.rows[2].status = "partial"

\* the team the viewer descriptor refers to
ReferencedTeam(viewer) ==
  IF viewer.activeTeamId # "" THEN viewer.activeTeamId ELSE viewer.teamId

\* C20: a call of ensureTeamForViewer that follows a call with the same
\* viewer descriptor, nothing having been written in between, returns what
\* the first call returned (the team it created, when it repaired) and
\* writes nothing; a call whose viewer refers to a team that exists returns
\* that team and writes nothing.
C20_EnsureIdempotent ==
  [][/\ (ensured.count = 1 /\ ensured'.count = 2)
        => /\ ensured'.result = ensured.result
           /\ Storage' = Storage
     /\ (ensured' # ensured /\ HasTeam(ReferencedTeam(ensured'.viewer)))
        => /\ ensured'.result = ReferencedTeam(ensured'.viewer)
           /\ Storage' = Storage]_vars

C20_Witness ==
  /\ ensured.count = 2 /\ ensured.repaired
  /\ ensured.result # NoTeam /\ ensured.result # TeamId
  /\ ~team.exists /\ HasTeam(ensured.result)
  /\ users[ensured.viewer.id].activeTeamId = ensured.result

\* C21: a call of ensureTeamForViewer for a viewer whose referenced team is
\* not stored and whose user record is not stored returns no team and
\* writes nothing: no team blob and no user record is created.
C21_NoUserNoRepair ==
  [][(/\ ensured' # ensured
      /\ ~HasTeam(ReferencedTeam(ensured'.viewer))
      /\ ~users[ensured'.viewer.id].exists)
     => /\ ensured'.result = NoTeam
        /\ Storage' = Storage]_vars

C21_Witness ==
  /\ ensured.count >= 1 /\ ensured.result = NoTeam
  /\ ensured.after = Storage
  /\ ~HasTeam(ReferencedTeam(ensured.viewer))
  /\ ~users[ensured.viewer.id].exists
  /\ teams.blobs = {}

\* C22: when ensureTeamForViewer repairs a missing team for a stored user,
\* the team it stores has exactly that user as its only member, and the
\* stored user afterwards has its active team and its legacy team id equal
\* to the new team's id and holds the manager role for the new team.
C22_RepairMakesManager ==
  [][(ensured' # ensured /\ NeedsRepair(ensured'.viewer))
     => LET id == ensured'.result
            user == users'[ensured'.viewer.id]
        IN /\ \E t \in teams'.blobs :
                t.id = id /\ t.memberUserIds = <<ensured'.viewer.id>>
           /\ user.exists
           /\ user.activeTeamId = id /\ user.teamId = id
           /\ getRoleForTeam(user, id) = "manager"]_vars

\* the legacy fields of a user record agree with its memberships
LegacyInSync(raw) ==
  LET u == normalizeUser(raw) IN
  /\ u.teamId = u.activeTeamId
  /\ \/ \E k \in 1..Len(u.memberships) :
          /\ u.memberships[k].teamId = u.activeTeamId
          /\ u.memberships[k].role = u.role
     \/ u.activeTeamId = "" /\ u.memberships = <<>>

\* C23: every stored user record has its legacy fields in sync with its
\* memberships, after any sequence of the write paths: the legacy team id is
\* the active team, the legacy role is the role of the membership for it.
C23_LegacyInSync ==
  \A u \in Users : users[u].exists => LegacyInSync(users[u])

\* C24: emails stay unique, case-insensitively: no two stored users have the
\* same lower-cased email, and every email mapping entry points to the one
\* stored user whose current email it is.
C24_EmailsUnique ==
  /\ \A u, v \in Users :
       (u # v /\ users[u].exists /\ users[v].exists)
       => toLowerCase(users[u].email) # toLowerCase(users[v].email)
  /\ \A e \in EmailKeys :
       byEmail[e] # NoUserId
       => /\ users[byEmail[e]].exists
          /\ toLowerCase(users[byEmail[e]].email) = e

\* an updateEntry that has returned one of its three errors
FailedUpdate(pr) ==
  /\ FinishedUpdate(pr)
  /\ pr.result \in {"Forbidden", "User not on team", "Conflict"}

\* C25 as stated: an updateEntry that returns Forbidden, BadRequest or
\* Conflict has performed no write: the key holds what it held before the
\* call, or is still absent.
C25_ErrorWritesNothing ==
  \A p \in Procs : FailedUpdate(procs[p]) => ~procs[p].wrote

\* C25 as amended: an updateEntry that returns Forbidden, or that returns
\* BadRequest or Conflict after finding the document stored, has written
\* nothing and leaves the stored document as it was; one that returns
\* BadRequest or Conflict after finding no document has stored the new
\* document, at version 0 with the reconciled rows, by the putJson of
\* getOrCreate, and nothing else.
C25_ErrorWritesOnlyCreation ==
  [][\A p \in Procs :
       (procs[p].pc # "done" /\ FailedUpdate(procs'[p]))
       => IF procs'[p].result = "Forbidden" \/ procs'[p].existed
          THEN ~procs'[p].wrote /\ standup' = standup
          ELSE /\ procs'[p].wrote /\ procs[p].pc = "create_put"
               /\ ~procs[p].wrote
               /\ standup' = [exists |-> TRUE, version |-> 0,
                              rows |-> procs'[p].doc.rows]]_vars

C25_Witness ==
  \E p \in Procs :
    /\ FailedUpdate(procs[p]) /\ procs[p].result = "Conflict"
    /\ procs[p].looked /\ ~procs[p].existed /\ procs[p].wrote
    /\ standup.exists /\ standup.version = 0
    /\ standup.rows = procs[p].doc.rows /\ Len(standup.rows) = 2

\* the helpers have both answered for the drawn user
Answered(pr) == pr.pc = "roles" /\ pr.result # "" /\ pr.shown = "teamIds"

\* C26: for a user whose memberships contain team t, getRoleForTeam(user, t)
\* is that membership's role whatever the legacy role is; for a legacy user
\* with a teamId and no memberships, userTeamIds is exactly [teamId] and
\* getRoleForTeam for that team is the legacy role.
C26_RoleFromMembership ==
  \A p \in Procs :
    Answered(procs[p])
    => LET user == procs[p].user[1]
           t == procs[p].query
       IN /\ \A k \in 1..Len(user.memberships) :
               user.memberships[k].teamId = t
               => procs[p].result = user.memberships[k].role
          /\ (user.memberships = <<>> /\ user.teamId # "")
             => /\ procs[p].teamIds = <<user.teamId>>
                /\ t = user.teamId => procs[p].result = user.role

C26_Witness ==
  \E p \in Procs :
    /\ Answered(procs[p])
    /\ Len(procs[p].user[1].memberships) = 2
    /\ procs[p].user[1].memberships[2].teamId = procs[p].query
    /\ procs[p].user[1].memberships[2].role = "manager"
    /\ procs[p].user[1].role = "member"
    /\ procs[p].result = "manager"
    /\ Len(procs[p].teamIds) = 2

\* the token of the call is a numeral other than the version it read
StaleToken(pr) == IsNumeral(pr.ifMatch) /\ pr.ifMatch # String(pr.loaded)

\* C27: updateEntry reports Forbidden before BadRequest before Conflict: an
\* unauthorized actor gets Forbidden also when the target is not on the team
\* or the token is stale, and an authorized actor whose target is not on the
\* team gets BadRequest also when the token is stale.
C27_ErrorPrecedence ==
  \A p \in Procs :
    FinishedUpdate(procs[p])
    => /\ ~Authorized(procs[p])
          => procs[p].result = "Forbidden" /\ procs[p].status = 403
       /\ (Authorized(procs[p]) /\ ~InSeq(procs[p].userId, procs[p].team)
             /\ procs[p].status # 500)
          => procs[p].result = "User not on team" /\ procs[p].status = 400

C27_Witness ==
  \E p \in Procs :
    /\ FinishedUpdate(procs[p]) /\ Authorized(procs[p])
    /\ ~InSeq(procs[p].userId, procs[p].team)
    /\ procs[p].existed /\ StaleToken(procs[p])
    /\ procs[p].result = "User not on team"

\* C28: an update request without an If-Match header never reaches
\* updateStandupEntry and neither creates nor changes the stored document;
\* with a session, a team and the cutoff not passed it is answered 428; and
\* no request of the handler that has written came without a token.
C28_NoHeaderRejected ==
  [][\A p \in Procs :
       /\ (procs[p].pc = "idle" /\ procs'[p].via = "handler" /\ procs'[p].ifMatch = E)
          => /\ procs'[p].pc = "done"
             /\ procs'[p].op # "update"
             /\ ~procs'[p].looked /\ ~procs'[p].wrote
             /\ standup' = standup
             /\ (session[procs'[p].viewerUserId] # "none" /\ team.exists /\ ~locked)
                => /\ procs'[p].status = 428
                   /\ procs'[p].result = "Missing If-Match header"
       /\ (procs'[p].via = "handler" /\ procs'[p].wrote) => procs'[p].ifMatch # E]_vars

C28_Witness ==
  \E p \in Procs :
    /\ procs[p].via = "handler" /\ procs[p].pc = "done" /\ ~locked
    /\ procs[p].ifMatch = E /\ procs[p].status = 428
    /\ procs[p].viewerUserId = procs[p].userId
    /\ session[procs[p].viewerUserId] # "none"
    /\ standup.exists /\ standup.version > 0

\* C29: a manager request whose session names a missing team while the user
\* record is stored is served against the repaired team: once
\* ensureTeamForViewer has created the replacement team, the handler does not
\* answer 404 'Team not found'.
C29_RepairedRequestServed ==
  \A p \in Procs :
    (procs[p].via = "manager" /\ procs[p].pc = "done" /\ procs[p].wrote)
    => procs[p].status # 404

\* C30: once a document is stored under the key, no getOrCreate overwrites
\* it: the putJson of a creation branch never replaces a document that has
\* been stored or updated by a different one, whatever the interleaving of
\* first accesses and updates.
C30_CreationNeverOverwrites ==
  [][\A p \in Procs :
       (procs[p].pc = "create_put" /\ procs'[p] # procs[p] /\ standup.exists)
       => standup' = standup]_vars

\* the user record has a membership for the team
HasMembership(raw, teamId) ==
  \E k \in 1..Len(normalizeUser(raw).memberships) :
    normalizeUser(raw).memberships[k].teamId = teamId

\* C31: after removeUserFromTeam(t, u) has returned a result, the stored
\* user u has no membership for t and its active team is not t, and the
\* stored team t does not list u, also when t was u's only team.
C31_RemovedEverywhere ==
  [][\A u \in Users :
       (/\ team.exists /\ team'.exists /\ users[u].exists
        /\ InSeq(u, team.memberUserIds) /\ ~InSeq(u, team'.memberUserIds))
       => /\ ~HasMembership(users'[u], TeamId)
          /\ normalizeUser(users'[u]).activeTeamId # TeamId]_vars

\* C32: membership is consistent in both directions: for every stored user u
\* and stored team t, u's memberships contain t if and only if t's member id
\* list contains u, after any sequence of the team operations.
C32_MembershipBothWays ==
  \A u \in Users :
    users[u].exists
    => /\ team.exists
          => (HasMembership(users[u], TeamId) <=> InSeq(u, team.memberUserIds))
       /\ \A t \in teams.blobs :
            HasMembership(users[u], t.id) <=> InSeq(u, t.memberUserIds)

\* an addUserToTeam that has returned a result
Added(pr) == pr.pc = "done" /\ pr.op = "addUserToTeam" /\ pr.result = "ok"

\* C33: once two addUserToTeam operations that add two different users to
\* the team have both returned, the stored team's member id list contains
\* both users, in every interleaving.
C33_BothAdded ==
  \A p, q \in Procs :
    (Added(procs[p]) /\ Added(procs[q]) /\ procs[p].userId # procs[q].userId)
    => /\ InSeq(procs[p].userId, team.memberUserIds)
       /\ InSeq(procs[q].userId, team.memberUserIds)

\* a call of ensureTeamForViewer that has returned a team
Ensured(pr) == pr.pc = "done" /\ pr.op = "ensure" /\ pr.result # NoTeam

\* C34: of two calls of ensureTeamForViewer for the same user whose team is
\* missing, in every interleaving, at most one creates a replacement team,
\* both return that same team, and it is the team the stored user
\* references afterwards.
C34_OneRepair ==
  \A p, q \in Procs :
    (/\ p # q /\ Ensured(procs[p]) /\ Ensured(procs[q])
     /\ procs[p].viewerUserId = procs[q].viewerUserId
     /\ procs[p].wrote)
    => /\ ~procs[q].wrote
       /\ procs[q].result = procs[p].result
       /\ users[procs[p].viewerUserId].activeTeamId = procs[p].result

\* C35: a member's saved row content is not destroyed by other users'
\* activity: getOrCreate returns, for every listed member with saved field
\* values, a row with those values, also when the member was removed from
\* the team and added back and other rows were updated in between.
C35_SavedRowKept ==
  \A p \in Procs :
    (procs[p].pc = "done" /\ procs[p].op = "get" /\ procs[p].status = 200)
    => \A u \in Users :
         (InSeq(u, procs[p].team) /\ committed[u] # NoPayload)
         => \E k \in 1..Len(procs[p].doc.rows) :
              /\ procs[p].doc.rows[k].userId = u
              /\ HasFields(procs[p].doc.rows[k], committed[u])

\* a save of the page that the server has answered
SavedFromPage(pr) == pr.pc = "done" /\ pr.via = "page" /\ pr.op = "update"

\* C36: a member's today page that has loaded the current document and then
\* saves the member's own row, nothing having been written since the load,
\* has its save accepted, for every stored version.
C36_MemberSaveAccepted ==
  \A p \in Procs :
    (/\ SavedFromPage(procs[p])
     /\ procs[p].page.viewer.role = "member"
     /\ ~procs[p].page.afterPut
     /\ procs[p].page.current)
    => procs[p].result = "ok" /\ procs[p].status = 200

\* C37: a manager's save of a row with unsaved local edits, when another
\* editor has committed a change to that row since the page last took its
\* copy of the row from the server, is rejected with Conflict, also when a
\* poll ran in between.
C37_ManagerSaveConflicts ==
  \A p \in Procs :
    (/\ SavedFromPage(procs[p])
     /\ procs[p].page.viewer.role = "manager"
     /\ procs[p].page.overwrites)
    => procs[p].result = "Conflict" /\ procs[p].status = 409

C39_NoRetryOnClientError ==
  \A p \in Procs :
    LET net == procs[p].net IN
    (/\ net.pc \in {"returned", "thrown"}
     /\ ~net.answers[1].thrown
     /\ ~IsOk(net.answers[1])
     /\ ~IsTransient(net.answers[1]))
    => net.fetches = 1 /\ net.pc = "thrown"

====
